---- MODULE Spec2Model ----
(***************************************************************************)
(* A model of the OptMATH instance generators.  Every generator module has *)
(* the same shape: Generator.__init__ stores parameters and seeds the      *)
(* process-wide pseudo-random sources, generate_instance samples the data  *)
(* and assembles the constraints of a mathematical program.                *)
(*                                                                         *)
(* The module holds several state machines over disjoint variables:        *)
(*   SpecInit     one Generator object: construction and sampling          *)
(*   SpecRng      several Generator objects sharing the global sources     *)
(*   SpecBalance  the supply/demand balancing loops                        *)
(*   SpecTSP      the TSP constraint system against route assignments      *)
(*   SpecLot      the lot-sizing constraint systems against their docs     *)
(*   SpecAircraft the aircraft-assignment constraint system                *)
(***************************************************************************)
EXTENDS Integers, Sequences, FiniteSets, TLC

VARIABLES
    pyRandom,     \* state of the global generator of module `random`
    npRandom,     \* state of the global generator of `numpy.random`
    gen,          \* gen[o]: the generator module object o is an instance of
    parameters,   \* parameters[o]: the `parameters` argument of the constructor
    seed,         \* seed[o]: self.seed, <<>> for None and <<s>> for an integer
    attrs,        \* attrs[o]: the parameter attributes of the object
    status,       \* status[o]: "none", "constructed", "generated", "AttributeError"
    instance,     \* instance[o]: the values generate_instance drew, in order
    immediate,    \* immediate[o]: generate_instance ran right after __init__
    lastInit      \* the object whose __init__ was the last operation, else 0

VARIABLES
    bGen,         \* the generator whose balancing step runs
    supply,       \* supply per origin (current product)
    demand,       \* demand per destination (current product)
    diff,         \* the remaining difference
    idx,          \* position of the for loop
    product,      \* multi: the product being balanced
    nProducts,    \* multi: number of products
    bpc           \* control state of generate_instance

VARIABLES
    tspN,         \* TSP: number of cities of the instance
    tspX,         \* TSP: the arcs (i, j) whose route variable is 1
    tspPc         \* TSP: "idle", "built", "assigned"

VARIABLES
    lotGen,       \* lot sizing: "ULS" or "ULSB"
    lotD,         \* demands per period
    lotX,         \* a candidate point: ordered amounts
    lotI,         \*   ending inventories
    lotY,         \*   order indicators
    lotB,         \*   backlogged amounts (ULSB)
    lotPc         \* "idle", "built", "assigned"

VARIABLES
    aaAvail,      \* aircraft assignment: availability per aircraft type
    aaDemand,     \* demand per route
    aaCap,        \* capabilities per (aircraft, route)
    aaAlloc,      \* a candidate point: allocation per (aircraft, route)
    aaPc          \* "idle", "built", "assigned"

VARIABLES
    returned,     \* returned[o]: what the last generate_instance call on o returned
    solved        \* solved[o]: the outcomes of the solve() calls on o, in order

VARIABLES
    cutWidths,    \* cutting stock: self.n_widths
    cutRoll,      \* self.roll_width
    cutNumPatterns, \* self.num_patterns
    cutJ,         \* the pattern whose column cutPattern holds
    cutPattern,   \* num_rolls_width[width, pattern_j] per width
    cutPc         \* "idle", "entries", "built"

VARIABLES
    scNodes,      \* SupplyChain: self.n_nodes
    scArc,        \* position in the comprehension over the arcs
    scCap,        \* cap[i, j] of the arc at that position
    scPc          \* "idle", "sized", "cap", "built"

VARIABLES
    msSizes,      \* MarketShare: <<n_companies, n_markets, n_products>>
    msIdx,        \* position in the loops over (i, j, k)
    msCost,       \* costs[i, j, k] at that position
    msRevenue,    \* revenues[i, j, k] at that position
    msPc          \* "idle", "sized", "entry", "built"

VARIABLES
    limits,       \* nltrans: limits[origin, destination]
    route,        \* TSP print_solution: the list `route`
    lookups       \* TSP print_solution: iterations of the successor loop

procVars == <<pyRandom, npRandom, gen, parameters, seed, attrs, status,
              instance, immediate, lastInit, returned, solved>>
cutVars == <<cutWidths, cutRoll, cutNumPatterns, cutJ, cutPattern, cutPc>>
scVars == <<scNodes, scArc, scCap, scPc>>
msVars == <<msSizes, msIdx, msCost, msRevenue, msPc>>
nlVars == <<limits>>
prVars == <<route, lookups>>
extVars == <<cutVars, scVars, msVars, nlVars, prVars>>
balVars == <<bGen, supply, demand, diff, idx, product, nProducts, bpc>>
tspVars == <<tspN, tspX, tspPc>>
lotVars == <<lotGen, lotD, lotX, lotI, lotY, lotB, lotPc>>
aaVars == <<aaAvail, aaDemand, aaCap, aaAlloc, aaPc>>
vars == <<procVars, balVars, tspVars, lotVars, aaVars, extVars>>

(***************************************************************************)
(* Bounds of the model.                                                    *)
(***************************************************************************)
RngMod == 4         \* number of states of a modelled pseudo-random source
MaxSeed == 1        \* seeds are None or 0..MaxSeed
MaxObjs == 2        \* Generator objects alive in one process
MaxNodes == 2       \* origins / destinations / cities of a balancing run
MaxQty == 2         \* largest supply or demand drawn
MaxProducts == 2    \* products of a `multi` run
MaxCities == 4      \* cities of a TSP instance
MaxPeriods == 2     \* periods of a lot-sizing instance
MaxDemand == 2      \* largest demand of a period or a route
MaxLot == 2         \* largest value of a lot-sizing variable in a candidate point
MaxAircraft == 2    \* aircraft types and routes of an assignment instance
MaxAlloc == 2       \* largest availability, capability or allocation
MaxPatterns == 2    \* patterns of a cutting-stock instance that are followed
MaxScNodes == 3     \* nodes of a SupplyChain instance
MaxMsSize == 2      \* companies, markets, products of a MarketShare instance
MaxLimit == 2       \* largest shipment limit of an nltrans instance
MaxSolves == 2      \* solve() calls on one Generator
MaxTime == 1        \* largest elapsed time of an optimize() call

Objects == 1..MaxObjs
Seeds == {<<>>} \cup {<<s>> : s \in 0..MaxSeed}

Min(a, b) == IF a <= b THEN a ELSE b

RECURSIVE SumSeq(_)
SumSeq(s) == IF Len(s) = 0 THEN 0 ELSE Head(s) + SumSeq(Tail(s))

(***************************************************************************)
(* The pseudo-random sources.  A source is a deterministic automaton: its  *)
(* output is a function of its state, and each draw advances the state.    *)
(* seed() sets the state to a function of the seed alone.                  *)
(***************************************************************************)
\* the state after k draws; the sources are modelled as counters modulo RngMod
RngAdvance(s, k) == (s + k) % RngMod
RngNext(s) == RngAdvance(s, 1)

PySeedState(sd) == sd % RngMod
NpSeedState(sd) == (sd + 1) % RngMod

\* random.randint(lo, hi): both ends included
RandInt(lo, hi, s) == lo + (s % (hi - lo + 1))
\* numpy.random.randint(lo, hi): hi excluded
NpRandInt(lo, hi, s) == lo + (s % (hi - lo))
\* random.uniform / numpy.random.uniform, in units of 1/RngMod
Uniform(lo, hi, s) == lo * RngMod + (hi - lo) * s

DrawValue(fn, lo, hi, s) ==
    CASE fn = "randint" -> RandInt(lo, hi, s)
      [] fn = "np_randint" -> NpRandInt(lo, hi, s)
      [] fn = "uniform" -> Uniform(lo, hi, s)
      [] fn = "random" -> s

\* k successive draws from state s
DrawSeq(fn, lo, hi, s, k) ==
    [i \in 1..k |-> DrawValue(fn, lo, hi, RngAdvance(s, i - 1))]

(***************************************************************************)
(* Generator.__init__.  A Python value is modelled as a tuple of integers: *)
(* a range (lo, hi) as <<lo, hi>>, a scalar v as <<v>>; fractions are kept *)
(* in tenths (ratios, densities) or hundredths (returns, risks).           *)
(***************************************************************************)
Generators == {"Knapsack", "JopShop", "Portfolio", "MCND", "netmcol"}
RngGenerators == {"Knapsack", "JopShop", "Portfolio"}

DefaultParameters(g) ==
    CASE g = "Knapsack" ->
           [n_items |-> <<3, 30>>, value_range |-> <<10, 300>>,
            weight_range |-> <<1, 50>>, capacity_ratio |-> <<7>>]
      [] g = "JopShop" ->
           [num_jobs |-> <<5, 30>>, num_machines |-> <<3, 50>>,
            operations_per_job |-> <<2, 8>>,
            processing_time_range |-> <<1, 10>>]
      [] g = "Portfolio" ->
           [n_assets |-> <<3, 100>>, budget |-> <<1000000>>,
            return_range |-> <<5, 15>>, risk_range |-> <<10, 30>>,
            weight_bounds |-> <<0, 30>>]
      [] g = "MCND" ->
           [n_nodes |-> <<2, 10>>, n_commodities |-> <<2, 10>>,
            density |-> <<3>>, capacity_range |-> <<10, 500>>,
            fixed_cost_range |-> <<100, 5000>>,
            variable_cost_range |-> <<1, 10>>, demand_range |-> <<10, 20>>]
      [] g = "netmcol" ->
           [n_cities |-> <<5, 10>>, n_products |-> <<3, 5>>,
            supply_range |-> <<50, 100>>, demand_range |-> <<50, 100>>,
            shipment_cost_range |-> <<1, 10>>, capacity_range |-> <<50, 100>>,
            joint_capacity_ratio |-> <<9>>]

DefaultKeys(g) == DOMAIN DefaultParameters(g)

EmptyDict == [k \in {} |-> <<>>]
None == [given |-> FALSE, dict |-> EmptyDict]
Dict(d) == [given |-> TRUE, dict |-> d]

\* A value a caller supplies for a key: of the default's shape, and not the default.
UserValue(v) == IF Len(v) = 2 THEN <<v[1], v[1] + 1>> ELSE <<v[1] + 1>>
UserDict(g, S) == [k \in S |-> UserValue(DefaultParameters(g)[k])]

\* every `parameters` argument: None, or a dict over any subset of the keys
AnyParameters(g) == {None} \cup {Dict(UserDict(g, S)) : S \in SUBSET DefaultKeys(g)}
\* the arguments under which generate_instance finds every attribute
CompleteParameters(g) ==
    {None, Dict(EmptyDict), Dict(UserDict(g, DefaultKeys(g)))}

\* `if parameters is None or not parameters` (also `parameters or default`),
\* against `if parameters is None` in MCND
EmptyMeansDefault(g) == g # "MCND"

UsesDefaults(g, P) ==
    \/ ~P.given
    \/ EmptyMeansDefault(g) /\ DOMAIN P.dict = {}

\* the dict whose items __init__ sets as attributes
Effective(g, P) == IF UsesDefaults(g, P) THEN DefaultParameters(g) ELSE P.dict

\* a Portfolio that seeds `random` alone
SeedsNpJobShopOnly(g) == g = "JopShop"

\* which global sources __init__ seeds when seed is not None
SeedsPy(g) == g # "JopShop"
SeedsNp(g) == g \in {"JopShop", "Portfolio"}

Construct(o, g, P, sd) ==
    /\ gen' = [gen EXCEPT ![o] = g]
    /\ parameters' = [parameters EXCEPT ![o] = P]
    /\ attrs' = [attrs EXCEPT ![o] = Effective(g, P)]
    /\ seed' = [seed EXCEPT ![o] = sd]
    /\ pyRandom' = IF sd # <<>> /\ SeedsPy(g) THEN PySeedState(sd[1]) ELSE pyRandom
    /\ npRandom' = IF sd # <<>> /\ SeedsNp(g) THEN NpSeedState(sd[1]) ELSE npRandom
    /\ status' = [status EXCEPT ![o] = "constructed"]
    /\ instance' = [instance EXCEPT ![o] = <<>>]
    /\ immediate' = [immediate EXCEPT ![o] = FALSE]
    /\ lastInit' = o
    /\ returned' = [returned EXCEPT ![o] = <<>>]
    /\ solved' = [solved EXCEPT ![o] = <<>>]
    /\ UNCHANGED <<balVars, tspVars, lotVars, aaVars, extVars>>

(***************************************************************************)
(* generate_instance: the sampling part.  The statements that read a       *)
(* parameter attribute or draw from a source are listed per generator in   *)
(* source order.  A missing attribute raises AttributeError at the first   *)
(* statement that evaluates it; the draws made before that stay made.      *)
(*   size   self.k = randint over self.k       one draw, k becomes an int  *)
(*   table  {i: draw over self.k for i in ..}  `count` draws               *)
(*   read   an attribute used in arithmetic    no draw                     *)
(*   arcs   MCND: random.random() < density for each ordered node pair     *)
(*   od     MCND: random.choice of an origin and of another node           *)
(*   jobs   JopShop: the nested loops over jobs and operations             *)
(***************************************************************************)
Step(op, rng, fn, key, lit, count) ==
    [op |-> op, rng |-> rng, fn |-> fn, key |-> key, lit |-> lit, count |-> count]

Plan(g) ==
    CASE g = "Knapsack" ->
           << Step("size", "py", "randint", "n_items", <<>>, "1"),
              Step("table", "py", "randint", "value_range", <<>>, "s1"),
              Step("table", "py", "randint", "weight_range", <<>>, "s1"),
              Step("read", "py", "-", "capacity_ratio", <<>>, "1") >>
      [] g = "JopShop" ->
           << Step("size", "np", "np_randint", "num_jobs", <<>>, "1"),
              Step("size", "np", "np_randint", "num_machines", <<>>, "1"),
              Step("jobs", "np", "np_randint", "operations_per_job", <<>>, "s1") >>
      [] g = "Portfolio" ->
           << Step("size", "py", "randint", "n_assets", <<>>, "1"),
              Step("table", "py", "uniform", "return_range", <<>>, "s1"),
              Step("table", "py", "uniform", "risk_range", <<>>, "s1"),
              Step("table", "np", "uniform", "-", <<-20, 80>>, "s1*s1"),
              Step("read", "py", "-", "weight_bounds", <<>>, "1") >>
      [] g = "MCND" ->
           << Step("size", "py", "randint", "n_nodes", <<>>, "1"),
              Step("size", "py", "randint", "n_commodities", <<>>, "1"),
              Step("arcs", "py", "random", "density", <<>>, "pairs"),
              Step("table", "py", "randint", "capacity_range", <<>>, "s3"),
              Step("table", "py", "randint", "fixed_cost_range", <<>>, "s3"),
              Step("table", "py", "randint", "variable_cost_range", <<>>, "s2*s3"),
              Step("table", "py", "randint", "demand_range", <<>>, "s2"),
              Step("od", "py", "randint", "-", <<>>, "s2") >>
      [] g = "netmcol" ->
           << Step("size", "py", "randint", "n_cities", <<>>, "1"),
              Step("size", "py", "randint", "n_products", <<>>, "1"),
              Step("table", "py", "randint", "supply_range", <<>>, "s1*s2"),
              Step("table", "py", "randint", "demand_range", <<>>, "s1*s2"),
              Step("table", "py", "randint", "shipment_cost_range", <<>>, "pairs*s2"),
              Step("table", "py", "randint", "capacity_range", <<>>, "pairs*s2"),
              Step("read", "py", "-", "joint_capacity_ratio", <<>>, "1") >>

\* the number of iterations of a comprehension, from the sizes drawn so far
CountOf(c, sizes) ==
    CASE c = "1" -> 1
      [] c = "s1" -> sizes[1]
      [] c = "s2" -> sizes[2]
      [] c = "s3" -> sizes[3]
      [] c = "s1*s1" -> sizes[1] * sizes[1]
      [] c = "s1*s2" -> sizes[1] * sizes[2]
      [] c = "s2*s3" -> sizes[2] * sizes[3]
      [] c = "pairs" -> sizes[1] * (sizes[1] - 1)
      [] c = "pairs*s2" -> sizes[1] * (sizes[1] - 1) * sizes[2]

\* JopShop: for each job one draw of num_ops, then per operation a
\* processing time and a machine
RECURSIVE JobDraws(_, _, _, _, _)
JobDraws(j, s, opsR, ptR, nMach) ==
    IF j = 0 THEN [s |-> s, out |-> <<>>]
    ELSE LET numOps == NpRandInt(opsR[1], opsR[2], s)
             s1 == RngNext(s)
             ops == [i \in 1..(2 * numOps) |->
                       IF i % 2 = 1
                       THEN NpRandInt(ptR[1], ptR[2], RngAdvance(s1, i - 1))
                       ELSE NpRandInt(0, nMach, RngAdvance(s1, i - 1))]
             rest == JobDraws(j - 1, RngAdvance(s1, 2 * numOps), opsR, ptR, nMach)
         IN [s |-> rest.s, out |-> <<numOps>> \o ops \o rest.out]

Source(st, rng) == IF rng = "py" THEN st.py ELSE st.np
Advanced(st, rng, k) ==
    IF rng = "py" THEN [st EXCEPT !.py = RngAdvance(@, k)]
    ELSE [st EXCEPT !.np = RngAdvance(@, k)]

RunStep(step, st) ==
    LET k == CountOf(step.count, st.sizes)
        missing == step.key # "-" /\ k > 0 /\ step.key \notin DOMAIN st.attrs
        range == IF step.key = "-" THEN step.lit ELSE st.attrs[step.key]
        s == Source(st, step.rng)
    IN  IF ~st.ok THEN st
        ELSE IF missing THEN [st EXCEPT !.ok = FALSE]
        ELSE CASE step.op = "read" -> st
          [] step.op = "size" ->
               LET v == DrawValue(step.fn, range[1], range[2], s)
               IN  [Advanced(st, step.rng, 1) EXCEPT
                      !.attrs = [@ EXCEPT ![step.key] = <<v>>],
                      !.sizes = Append(@, v),
                      !.out = Append(@, v)]
          [] step.op = "table" ->
               IF k = 0 THEN st
               ELSE [Advanced(st, step.rng, k) EXCEPT
                       !.out = @ \o DrawSeq(step.fn, range[1], range[2], s, k)]
          [] step.op = "arcs" ->
               LET vals == DrawSeq("random", 0, 1, s, k)
                   nArcs == Cardinality({i \in 1..k : vals[i] * 10 < range[1] * RngMod})
               IN  [Advanced(st, step.rng, k) EXCEPT
                      !.sizes = Append(@, nArcs),
                      !.out = @ \o vals]
          [] step.op = "od" ->
               LET n == st.sizes[1]
                   vals == [i \in 1..(2 * k) |->
                              IF i % 2 = 1
                              THEN RandInt(0, n - 1, RngAdvance(s, i - 1))
                              ELSE RandInt(0, n - 2, RngAdvance(s, i - 1))]
               IN  [Advanced(st, step.rng, 2 * k) EXCEPT !.out = @ \o vals]
          [] step.op = "jobs" ->
               IF "processing_time_range" \notin DOMAIN st.attrs
               THEN [Advanced(st, step.rng, 1) EXCEPT !.ok = FALSE]
               ELSE LET r == JobDraws(k, s, range,
                                      st.attrs["processing_time_range"],
                                      st.sizes[2])
                    IN  [st EXCEPT !.np = r.s, !.out = @ \o r.out]

RECURSIVE RunPlan(_, _)
RunPlan(plan, st) ==
    IF Len(plan) = 0 THEN st ELSE RunPlan(Tail(plan), RunStep(Head(plan), st))

Sample(g, a, py, np) ==
    RunPlan(Plan(g), [ok |-> TRUE, py |-> py, np |-> np, attrs |-> a,
                      out |-> <<>>, sizes |-> <<>>])

\* the value of `return model`; MCND builds instance_data and does not return it
Returns(g) == <<"model">>

GenerateInstance(o) ==
    /\ status[o] = "constructed"
    /\ LET r == Sample(gen[o], attrs[o], pyRandom, npRandom)
       IN  /\ status' = [status EXCEPT ![o] = IF r.ok THEN "generated" ELSE "AttributeError"]
           /\ instance' = [instance EXCEPT ![o] = r.out]
           /\ attrs' = [attrs EXCEPT ![o] = r.attrs]
           /\ pyRandom' = r.py
           /\ npRandom' = r.np
           /\ returned' = [returned EXCEPT ![o] = IF r.ok THEN Returns(gen[o]) ELSE <<>>]
    /\ immediate' = [immediate EXCEPT ![o] = (lastInit = o)]
    /\ lastInit' = 0
    /\ UNCHANGED <<gen, parameters, seed, solved>>
    /\ UNCHANGED <<balVars, tspVars, lotVars, aaVars, extVars>>

InitProc ==
    /\ pyRandom \in 0..(RngMod - 1)
    /\ npRandom \in 0..(RngMod - 1)
    /\ gen = [o \in Objects |-> "none"]
    /\ parameters = [o \in Objects |-> None]
    /\ seed = [o \in Objects |-> <<>>]
    /\ attrs = [o \in Objects |-> EmptyDict]
    /\ status = [o \in Objects |-> "none"]
    /\ instance = [o \in Objects |-> <<>>]
    /\ immediate = [o \in Objects |-> FALSE]
    /\ lastInit = 0
    /\ returned = [o \in Objects |-> <<>>]
    /\ solved = [o \in Objects |-> <<>>]

IdleBalance ==
    /\ bGen = "none"
    /\ supply = <<>>
    /\ demand = <<>>
    /\ diff = 0
    /\ idx = 0
    /\ product = 0
    /\ nProducts = 0
    /\ bpc = "idle"

IdleTsp ==
    /\ tspN = 0
    /\ tspX = {}
    /\ tspPc = "idle"

IdleLot ==
    /\ lotGen = "none"
    /\ lotD = <<>>
    /\ lotX = <<>>
    /\ lotI = <<>>
    /\ lotY = <<>>
    /\ lotB = <<>>
    /\ lotPc = "idle"

IdleAircraft ==
    /\ aaAvail = <<>>
    /\ aaDemand = <<>>
    /\ aaCap = <<>>
    /\ aaAlloc = <<>>
    /\ aaPc = "idle"

IdleCut ==
    /\ cutWidths = 0
    /\ cutRoll = 0
    /\ cutNumPatterns = 0
    /\ cutJ = 0
    /\ cutPattern = <<>>
    /\ cutPc = "idle"

IdleSupplyChain ==
    /\ scNodes = 0
    /\ scArc = 0
    /\ scCap = 0
    /\ scPc = "idle"

IdleMarketShare ==
    /\ msSizes = <<>>
    /\ msIdx = 0
    /\ msCost = 0
    /\ msRevenue = 0
    /\ msPc = "idle"

IdleExt ==
    /\ IdleCut
    /\ IdleSupplyChain
    /\ IdleMarketShare
    /\ limits = <<>>
    /\ route = <<>>
    /\ lookups = 0

IdleProc ==
    /\ pyRandom = 0
    /\ npRandom = 0
    /\ gen = [o \in Objects |-> "none"]
    /\ parameters = [o \in Objects |-> None]
    /\ seed = [o \in Objects |-> <<>>]
    /\ attrs = [o \in Objects |-> EmptyDict]
    /\ status = [o \in Objects |-> "none"]
    /\ instance = [o \in Objects |-> <<>>]
    /\ immediate = [o \in Objects |-> FALSE]
    /\ lastInit = 0
    /\ returned = [o \in Objects |-> <<>>]
    /\ solved = [o \in Objects |-> <<>>]

(***************************************************************************)
(* SpecInit: a run that constructs one Generator, with any `parameters`    *)
(* argument, and calls generate_instance on it.                            *)
(***************************************************************************)
InitInit == InitProc /\ IdleBalance /\ IdleTsp /\ IdleLot /\ IdleAircraft /\ IdleExt

NewGenerator ==
    \E g \in Generators : \E P \in AnyParameters(g) : \E sd \in Seeds :
        /\ status[1] = "none"
        /\ Construct(1, g, P, sd)

RunGenerator == GenerateInstance(1)

NextInit == NewGenerator \/ RunGenerator

SpecInit == InitInit /\ [][NextInit]_vars

(***************************************************************************)
(* SpecRng: several Generator objects of one process, each constructed     *)
(* once with a complete parameter set and run once, in any interleaving.   *)
(***************************************************************************)
ConstructSeeded ==
    \E o \in Objects : \E g \in RngGenerators :
      \E P \in CompleteParameters(g) : \E sd \in Seeds :
        /\ status[o] = "none"
        /\ Construct(o, g, P, sd)

GenerateAny == \E o \in Objects : GenerateInstance(o)

NextRng == ConstructSeeded \/ GenerateAny

SpecRng == InitInit /\ [][NextRng]_vars

(***************************************************************************)
(* The balancing step of generate_instance in net1, netasgn, netthru,      *)
(* multi, transp and nltrans.  Each iteration of a for loop is one action. *)
(* supply and demand are the dicts in insertion order.  In multi the       *)
(* columns of the products are independent draws; the column of a product  *)
(* is drawn when its iteration of the product loop starts.                 *)
(***************************************************************************)
BalGenerators == {"net1", "netasgn", "netthru", "multi", "transp", "nltrans"}
\* supply and demand are keyed by the same cities
SameKeys(g) == g \in {"net1", "netthru"}
\* `assert` follows the balancing
Asserts(g) == g # "multi"
\* the deficit is covered by raising supply instead of reducing demand
RaisesSupply(g) == g \in {"transp", "nltrans"}

Quantities(n) == [1..n -> 0..MaxQty]

BalDraw ==
    /\ bpc = "idle"
    /\ \E g \in BalGenerators : \E ns, nd \in 1..MaxNodes :
         /\ SameKeys(g) => nd = ns
         /\ \E sup \in Quantities(ns) : \E dem \in Quantities(nd) :
              /\ bGen' = g
              /\ supply' = sup
              /\ demand' = dem
         /\ IF g = "multi"
            THEN \E np \in 1..MaxProducts : nProducts' = np /\ product' = 1
            ELSE nProducts' = 0 /\ product' = 0
    /\ diff' = 0
    /\ idx' = 0
    /\ bpc' = "compare"
    /\ UNCHANGED <<procVars, tspVars, lotVars, aaVars, extVars>>

\* the loop to run for total supply ts and total demand td
Branch(g, ts, td) ==
    IF ts > td THEN "reduce_supply"
    ELSE IF g = "multi" THEN "reduce_demand"
    ELSE IF td > ts THEN (IF RaisesSupply(g) THEN "increase" ELSE "reduce_demand")
    ELSE "after"

AfterLoop(g) == IF Asserts(g) THEN "assert" ELSE "balanced"

BalCompare ==
    /\ bpc = "compare"
    /\ LET ts == SumSeq(supply)
           td == SumSeq(demand)
           b == Branch(bGen, ts, td)
       IN  /\ diff' = IF ts > td THEN ts - td ELSE td - ts
           /\ bpc' = IF b = "after" THEN AfterLoop(bGen) ELSE b
    /\ idx' = 1
    /\ UNCHANGED <<bGen, supply, demand, product, nProducts>>
    /\ UNCHANGED <<procVars, tspVars, lotVars, aaVars, extVars>>

\* `if diff <= 0: break` (net1, netasgn, transp, nltrans),
\* `if diff == 0: break` (netthru, multi)
Breaks(g, d) == IF g \in {"netthru", "multi"} THEN d = 0 ELSE d <= 0

\* a reduction that takes the whole entry
ReductionWhole(d, q) == q

\* reduction = min(diff, supply[city])
Reduction(d, q) == Min(d, q)

ReduceSupply ==
    /\ bpc = "reduce_supply"
    /\ IF idx > Len(supply) \/ Breaks(bGen, diff)
       THEN /\ bpc' = AfterLoop(bGen)
            /\ UNCHANGED <<supply, diff, idx>>
       ELSE /\ supply' = [supply EXCEPT ![idx] = @ - Reduction(diff, supply[idx])]
            /\ diff' = diff - Reduction(diff, supply[idx])
            /\ idx' = idx + 1
            /\ bpc' = bpc
    /\ UNCHANGED <<bGen, demand, product, nProducts>>
    /\ UNCHANGED <<procVars, tspVars, lotVars, aaVars, extVars>>

ReduceDemand ==
    /\ bpc = "reduce_demand"
    /\ IF idx > Len(demand) \/ Breaks(bGen, diff)
       THEN /\ bpc' = AfterLoop(bGen)
            /\ UNCHANGED <<demand, diff, idx>>
       ELSE /\ demand' = [demand EXCEPT ![idx] = @ - Reduction(diff, demand[idx])]
            /\ diff' = diff - Reduction(diff, demand[idx])
            /\ idx' = idx + 1
            /\ bpc' = bpc
    /\ UNCHANGED <<bGen, supply, product, nProducts>>
    /\ UNCHANGED <<procVars, tspVars, lotVars, aaVars, extVars>>

\* a loop without the break: every origin is raised
IncreasedSupplyAll(sup, d) == [i \in DOMAIN sup |-> sup[i] + d]

\* for origin in supplies: supplies[origin] += diff; break
IncreasedSupply(sup, d) ==
    IF Len(sup) = 0 THEN sup ELSE [sup EXCEPT ![1] = @ + d]

IncreaseSupply ==
    /\ bpc = "increase"
    /\ supply' = IncreasedSupply(supply, diff)
    /\ bpc' = AfterLoop(bGen)
    /\ UNCHANGED <<bGen, demand, diff, idx, product, nProducts>>
    /\ UNCHANGED <<procVars, tspVars, lotVars, aaVars, extVars>>

BalAssert ==
    /\ bpc = "assert"
    /\ bpc' = IF SumSeq(supply) = SumSeq(demand) THEN "done" ELSE "AssertionError"
    /\ UNCHANGED <<bGen, supply, demand, diff, idx, product, nProducts>>
    /\ UNCHANGED <<procVars, tspVars, lotVars, aaVars, extVars>>

\* multi: the next iteration of `for p in products`
NextProduct ==
    /\ bpc = "balanced"
    /\ IF product < nProducts
       THEN /\ product' = product + 1
            /\ \E sup \in Quantities(Len(supply)) : supply' = sup
            /\ \E dem \in Quantities(Len(demand)) : demand' = dem
            /\ bpc' = "compare"
       ELSE /\ bpc' = "done"
            /\ UNCHANGED <<supply, demand, product>>
    /\ UNCHANGED <<bGen, diff, idx, nProducts>>
    /\ UNCHANGED <<procVars, tspVars, lotVars, aaVars, extVars>>

InitBalance == IdleProc /\ IdleBalance /\ IdleTsp /\ IdleLot /\ IdleAircraft /\ IdleExt

NextBalance ==
    \/ BalDraw
    \/ BalCompare
    \/ ReduceSupply
    \/ ReduceDemand
    \/ IncreaseSupply
    \/ BalAssert
    \/ NextProduct

SpecBalance == InitBalance /\ [][NextBalance]_vars

(***************************************************************************)
(* TSP.  generate_instance declares a binary route variable for every      *)
(* ordered pair of distinct cities and an integer u per city, and adds the *)
(* visit, depart and subtour-elimination constraints.  City 1 is           *)
(* self.cities[0].  The distances enter the objective only.  A solver's    *)
(* answer is any 0/1 assignment of the route variables.                    *)
(***************************************************************************)
MinCities == 3

Cities(n) == 1..n
Arcs(n) == {a \in Cities(n) \X Cities(n) : a[1] # a[2]}
X01(X, a) == IF a \in X THEN 1 ELSE 0

TspGenerate ==
    /\ tspPc = "idle"
    /\ \E n \in MinCities..MaxCities : tspN' = n
    /\ tspX' = {}
    /\ tspPc' = "built"
    /\ UNCHANGED <<procVars, balVars, lotVars, aaVars, extVars>>

TspAssign ==
    /\ tspPc = "built"
    /\ \E X \in SUBSET Arcs(tspN) : tspX' = X
    /\ tspPc' = "assigned"
    /\ UNCHANGED tspN
    /\ UNCHANGED <<procVars, balVars, lotVars, aaVars, extVars>>

\* quicksum(x[i,j] for i in cities if i != j) == 1, for every j
Visit(n, X) ==
    \A j \in Cities(n) : Cardinality({i \in Cities(n) : i # j /\ <<i, j>> \in X}) = 1
\* quicksum(x[i,j] for j in cities if i != j) == 1, for every i
Depart(n, X) ==
    \A i \in Cities(n) : Cardinality({j \in Cities(n) : i # j /\ <<i, j>> \in X}) = 1

\* a constraint for every pair, the start city included
MtzPairsAll(n) == Arcs(n)

\* the pairs with a subtour-elimination constraint: neither end is cities[0]
MtzPairs(n) == {a \in Arcs(n) : a[1] # 1 /\ a[2] # 1}

\* 0 <= u[i] <= n-1 for i other than cities[0]; u[cities[0]] has the lower
\* bound 0 only and occurs in no constraint, any value serves for it
UValues(n) == [Cities(n) -> 0..(n - 1)]

\* u[i] - u[j] + n*x[i,j] <= n-1
Mtz(n, X, u) ==
    \A a \in MtzPairs(n) : u[a[1]] - u[a[2]] + n * X01(X, a) <= n - 1

\* the assignment extends to a solution of the built model
Completable(n, X) ==
    /\ Visit(n, X)
    /\ Depart(n, X)
    /\ \E u \in UValues(n) : Mtz(n, X, u)

InitTsp == IdleProc /\ IdleBalance /\ IdleTsp /\ IdleLot /\ IdleAircraft /\ IdleExt

NextTsp == TspGenerate \/ TspAssign

SpecTSP == InitTsp /\ [][NextTsp]_vars

(***************************************************************************)
(* UncapacitatedLotSizing and UncapacitatedLotSizingBacklogging.  The      *)
(* variables x, I, B are continuous with lower bound 0, y is binary; index *)
(* t of a sequence is period_t.  A candidate point takes its values on the *)
(* integer grid 0..MaxLot.  The costs enter the objective only.            *)
(***************************************************************************)
LotGenerate ==
    /\ lotPc = "idle"
    /\ \E g \in {"ULS", "ULSB"} : lotGen' = g
    /\ \E n \in 1..MaxPeriods : \E D \in [1..n -> 1..MaxDemand] : lotD' = D
    /\ lotPc' = "built"
    /\ UNCHANGED <<lotX, lotI, lotY, lotB>>
    /\ UNCHANGED <<procVars, balVars, tspVars, aaVars, extVars>>

LotAssign ==
    /\ lotPc = "built"
    /\ LET n == Len(lotD)
       IN  /\ \E x \in [1..n -> 0..MaxLot] : lotX' = x
           /\ \E inv \in [1..n -> 0..MaxLot] : lotI' = inv
           /\ \E y \in [1..n -> 0..1] : lotY' = y
           /\ IF lotGen = "ULSB"
              THEN \E b \in [1..n -> 0..MaxLot] : lotB' = b
              ELSE lotB' = [t \in 1..n |-> 0]
    /\ lotPc' = "assigned"
    /\ UNCHANGED <<lotGen, lotD>>
    /\ UNCHANGED <<procVars, balVars, tspVars, aaVars, extVars>>

\* x[t] <= y[t] * sum(demands.values())
OrderedUpperBound(D, x, y) ==
    \A t \in 1..Len(D) : x[t] <= y[t] * SumSeq(D)

\* the constraints generate_instance adds in UncapacitatedLotSizing
BuiltULS(D, x, inv, y) ==
    LET n == Len(D)
    IN  /\ \A t \in 1..n :
              IF t = 1 THEN x[t] = inv[t] + D[t]
              ELSE inv[t - 1] + x[t] = inv[t] + D[t]
        /\ OrderedUpperBound(D, x, y)
        /\ inv[1] = 0
        /\ inv[n] = 0

\* the constraints generate_instance adds in UncapacitatedLotSizingBacklogging
BuiltULSB(D, x, inv, y, b) ==
    LET n == Len(D)
    IN  /\ \A t \in 1..n :
              IF t = 1 THEN x[t] - b[t] = inv[t] + D[t] - b[t]
              ELSE inv[t - 1] + x[t] - b[t - 1] = inv[t] + D[t] - b[t]
        /\ OrderedUpperBound(D, x, y)
        /\ inv[1] = 0
        /\ inv[n] = 0
        /\ b[1] = 0
        /\ b[n] = 0

InitLot == IdleProc /\ IdleBalance /\ IdleTsp /\ IdleLot /\ IdleAircraft /\ IdleExt

NextLot == LotGenerate \/ LotAssign

SpecLot == InitLot /\ [][NextLot]_vars

(***************************************************************************)
(* AircraftAssignment.  allocation is an integer variable with lower bound *)
(* 0 per (aircraft, route).  The costs enter the objective only.           *)
(***************************************************************************)
RECURSIVE SumOver(_, _)
SumOver(S, f) ==
    IF S = {} THEN 0
    ELSE LET e == CHOOSE e \in S : TRUE IN f[e] + SumOver(S \ {e}, f)

AaGenerate ==
    /\ aaPc = "idle"
    /\ \E na, nr \in 1..MaxAircraft :
         /\ \E av \in [1..na -> 1..MaxAlloc] : aaAvail' = av
         /\ \E dm \in [1..nr -> 1..MaxDemand] : aaDemand' = dm
         /\ \E cp \in [(1..na) \X (1..nr) -> 1..MaxAlloc] : aaCap' = cp
    /\ aaPc' = "built"
    /\ UNCHANGED aaAlloc
    /\ UNCHANGED <<procVars, balVars, tspVars, lotVars, extVars>>

AaAssign ==
    /\ aaPc = "built"
    /\ \E al \in [DOMAIN aaCap -> 0..MaxAlloc] : aaAlloc' = al
    /\ aaPc' = "assigned"
    /\ UNCHANGED <<aaAvail, aaDemand, aaCap>>
    /\ UNCHANGED <<procVars, balVars, tspVars, lotVars, extVars>>

\* quicksum(allocation[a,r] for r in routes), for aircraft a
Allocated(al, a) ==
    SumOver(DOMAIN aaDemand, [r \in DOMAIN aaDemand |-> al[<<a, r>>]])
\* quicksum(allocation[a,r] * capabilities[a,r] for a in aircraft), for route r
Carried(al, r) ==
    SumOver(DOMAIN aaAvail, [a \in DOMAIN aaAvail |-> al[<<a, r>>] * aaCap[<<a, r>>]])

\* the constraints generate_instance adds in AircraftAssignment
BuiltAircraft(al) ==
    /\ \A a \in DOMAIN aaAvail : Allocated(al, a) <= aaAvail[a]
    /\ \A r \in DOMAIN aaDemand : Carried(al, r) >= aaDemand[r]

InitAircraft == IdleProc /\ IdleBalance /\ IdleTsp /\ IdleLot /\ IdleAircraft /\ IdleExt

NextAircraft == AaGenerate \/ AaAssign

SpecAircraft == InitAircraft /\ [][NextAircraft]_vars

(***************************************************************************)
(* cut_parsed: the cutting-stock generator.  generate_instance draws the   *)
(* number of widths, the roll width and the number of patterns, then the   *)
(* table num_rolls_width; the widths are the integers 1..n_widths.  The    *)
(* entries are independent draws, one action each; the table is followed   *)
(* one pattern at a time, cutPattern holding the column of pattern cutJ.   *)
(* The roll width is followed for the two ends of its range, the number of *)
(* patterns for 1..MaxPatterns.                                            *)
(***************************************************************************)
\* random.randint over r, at the ends of the range
RangeEnds(r) == {r[1], r[2]}

CutDefaults ==
    [n_widths |-> <<3, 5>>, roll_width |-> <<50, 120>>,
     orders_range |-> <<10, 50>>, num_patterns |-> <<10, 20>>]

\* random.randint(0, 5): the largest number of rolls of a width in a pattern
MaxRollsPerWidth == 5

CutSizes ==
    /\ cutPc = "idle"
    /\ \E n \in CutDefaults.n_widths[1]..CutDefaults.n_widths[2] : cutWidths' = n
    /\ \E w \in RangeEnds(CutDefaults.roll_width) : cutRoll' = w
    /\ \E k \in 1..MaxPatterns : cutNumPatterns' = k
    /\ cutJ' = 1
    /\ cutPattern' = <<>>
    /\ cutPc' = "entries"
    /\ UNCHANGED <<procVars, balVars, tspVars, lotVars, aaVars>>
    /\ UNCHANGED <<scVars, msVars, nlVars, prVars>>

\* num_rolls_width[width, pattern] = random.randint(0, 5), for the next width
CutEntry ==
    /\ cutPc = "entries"
    /\ Len(cutPattern) < cutWidths
    /\ \E v \in 0..MaxRollsPerWidth : cutPattern' = Append(cutPattern, v)
    /\ UNCHANGED <<cutWidths, cutRoll, cutNumPatterns, cutJ, cutPc>>
    /\ UNCHANGED <<procVars, balVars, tspVars, lotVars, aaVars>>
    /\ UNCHANGED <<scVars, msVars, nlVars, prVars>>

\* the column of pattern cutJ is complete: on to the next pattern
CutNextPattern ==
    /\ cutPc = "entries"
    /\ Len(cutPattern) = cutWidths
    /\ cutJ < cutNumPatterns
    /\ cutJ' = cutJ + 1
    /\ cutPattern' = <<>>
    /\ UNCHANGED <<cutWidths, cutRoll, cutNumPatterns, cutPc>>
    /\ UNCHANGED <<procVars, balVars, tspVars, lotVars, aaVars>>
    /\ UNCHANGED <<scVars, msVars, nlVars, prVars>>

\* the table is complete: the model is built and returned
CutBuild ==
    /\ cutPc = "entries"
    /\ Len(cutPattern) = cutWidths
    /\ cutJ = cutNumPatterns
    /\ cutPc' = "built"
    /\ UNCHANGED <<cutWidths, cutRoll, cutNumPatterns, cutJ, cutPattern>>
    /\ UNCHANGED <<procVars, balVars, tspVars, lotVars, aaVars>>
    /\ UNCHANGED <<scVars, msVars, nlVars, prVars>>

\* quicksum(width * num_rolls_width[width, pattern] for width in widths)
RECURSIVE PatternWidth(_, _)
PatternWidth(col, n) ==
    IF n = 0 THEN 0 ELSE n * col[n] + PatternWidth(col, n - 1)

InitCut == IdleProc /\ IdleBalance /\ IdleTsp /\ IdleLot /\ IdleAircraft /\ IdleExt

NextCut == CutSizes \/ CutEntry \/ CutNextPattern \/ CutBuild

SpecCut == InitCut /\ [][NextCut]_vars

(***************************************************************************)
(* SupplyChain.  generate_instance draws the sizes, distributes            *)
(* total_supply over suppliers and customers, then draws cap, fixed_costs  *)
(* and unit_costs for every ordered pair of distinct nodes.  The           *)
(* comprehension that builds cap is followed one arc per action, scCap     *)
(* holding the entry just drawn.  Supplies and demands are not read by it. *)
(***************************************************************************)
ScDefaults ==
    [n_nodes |-> <<3, 50>>, cap_range |-> <<50, 200>>,
     fixed_cost_range |-> <<1000, 5000>>, unit_cost_range |-> <<10, 50>>,
     total_supply |-> <<1000>>, n_suppliers |-> <<3, 10>>,
     n_customers |-> <<3, 20>>]

\* random.randint(max_flow // 2, max_flow) with max_flow = self.total_supply
ScCapRange == <<ScDefaults.total_supply[1] \div 2, ScDefaults.total_supply[1]>>

ScSizes ==
    /\ scPc = "idle"
    /\ \E n \in ScDefaults.n_nodes[1]..Min(ScDefaults.n_nodes[2], MaxScNodes) : scNodes' = n
    /\ scArc' = 0
    /\ scCap' = 0
    /\ scPc' = "sized"
    /\ UNCHANGED <<procVars, balVars, tspVars, lotVars, aaVars>>
    /\ UNCHANGED <<cutVars, msVars, nlVars, prVars>>

\* cap[i, j] for the next pair with i != j
ScDrawCap ==
    /\ scPc \in {"sized", "cap"}
    /\ scArc < scNodes * (scNodes - 1)
    /\ \E c \in ScCapRange[1]..ScCapRange[2] : scCap' = c
    /\ scArc' = scArc + 1
    /\ scPc' = "cap"
    /\ UNCHANGED scNodes
    /\ UNCHANGED <<procVars, balVars, tspVars, lotVars, aaVars>>
    /\ UNCHANGED <<cutVars, msVars, nlVars, prVars>>

\* cap is complete: costs, model construction and return
ScBuild ==
    /\ scPc = "cap"
    /\ scArc = scNodes * (scNodes - 1)
    /\ scPc' = "built"
    /\ UNCHANGED <<scNodes, scArc, scCap>>
    /\ UNCHANGED <<procVars, balVars, tspVars, lotVars, aaVars>>
    /\ UNCHANGED <<cutVars, msVars, nlVars, prVars>>

InitSupplyChain == IdleProc /\ IdleBalance /\ IdleTsp /\ IdleLot /\ IdleAircraft /\ IdleExt

NextSupplyChain == ScSizes \/ ScDrawCap \/ ScBuild

SpecSupplyChain == InitSupplyChain /\ [][NextSupplyChain]_vars

(***************************************************************************)
(* MarketShare.  generate_instance draws the numbers of companies, markets *)
(* and products, the demands, and in the loops over (i, j, k) a cost and a *)
(* revenue.  One action is one iteration of the innermost loop, msCost and *)
(* msRevenue holding the entries just stored.  The demands are not read by *)
(* the loop.                                                               *)
(***************************************************************************)
MsDefaults ==
    [n_companies |-> <<1, 20>>, n_markets |-> <<2, 20>>,
     n_products |-> <<1, 20>>, demand_range |-> <<10, 30>>,
     cost_range |-> <<1, 5>>, revenue_range |-> <<8, 15>>]

\* random.randint(3, 10), the margin added to the cost
MsMargin == <<3, 10>>

\* a size drawn from range r, up to MaxMsSize
MsSizeDraws(r) == r[1]..Min(r[2], MaxMsSize)

MsSizes ==
    /\ msPc = "idle"
    /\ \E nc \in MsSizeDraws(MsDefaults.n_companies) :
       \E nm \in MsSizeDraws(MsDefaults.n_markets) :
       \E np \in MsSizeDraws(MsDefaults.n_products) :
           msSizes' = <<nc, nm, np>>
    /\ msIdx' = 0
    /\ msCost' = 0
    /\ msRevenue' = 0
    /\ msPc' = "sized"
    /\ UNCHANGED <<procVars, balVars, tspVars, lotVars, aaVars>>
    /\ UNCHANGED <<cutVars, scVars, nlVars, prVars>>

\* cost = random.randint(*self.cost_range);
\* revenues[i,j,k] = cost + random.randint(3, 10)
MsEntry ==
    /\ msPc \in {"sized", "entry"}
    /\ msIdx < msSizes[1] * msSizes[2] * msSizes[3]
    /\ \E cost \in MsDefaults.cost_range[1]..MsDefaults.cost_range[2] :
       \E margin \in MsMargin[1]..MsMargin[2] :
           /\ msCost' = cost
           /\ msRevenue' = cost + margin
    /\ msIdx' = msIdx + 1
    /\ msPc' = "entry"
    /\ UNCHANGED msSizes
    /\ UNCHANGED <<procVars, balVars, tspVars, lotVars, aaVars>>
    /\ UNCHANGED <<cutVars, scVars, nlVars, prVars>>

\* the loops are over: model construction and return
MsBuild ==
    /\ msPc = "entry"
    /\ msIdx = msSizes[1] * msSizes[2] * msSizes[3]
    /\ msPc' = "built"
    /\ UNCHANGED <<msSizes, msIdx, msCost, msRevenue>>
    /\ UNCHANGED <<procVars, balVars, tspVars, lotVars, aaVars>>
    /\ UNCHANGED <<cutVars, scVars, nlVars, prVars>>

InitMarketShare == IdleProc /\ IdleBalance /\ IdleTsp /\ IdleLot /\ IdleAircraft /\ IdleExt

NextMarketShare == MsSizes \/ MsEntry \/ MsBuild

SpecMarketShare == InitMarketShare /\ [][NextMarketShare]_vars

(***************************************************************************)
(* JopShop Generator.solve.  self.model is set by the last statements of   *)
(* generate_instance, so it exists exactly when generate_instance has      *)
(* returned.  self.model.optimize() belongs to the solver library: it      *)
(* either completes, leaving a status in model.Status, or raises           *)
(* gp.GurobiError.  An outcome of solve is a record: `raised` is "none"    *)
(* for a return and the exception that escapes otherwise; status and time  *)
(* are the pair returned.  Times are in whole units up to MaxTime.         *)
(***************************************************************************)
\* the solver statuses the module distinguishes after optimize()
SolveStatuses == {"OPTIMAL", "INFEASIBLE", "UNBOUNDED", "INF_OR_UNBD", "TIME_LIMIT"}

Returned(st, tm) == [raised |-> "none", status |-> st, time |-> tm]
Escaped(exc) == [raised |-> exc, status |-> "-", time |-> 0]

\* what the try block does: the exception it raises, or "none" and the pair
TryOutcomes(hasModel) ==
    IF ~hasModel THEN {Escaped("AttributeError")}
    ELSE {Escaped("GurobiError")} \cup
         {Returned(st, tm) : st \in SolveStatuses, tm \in 0..MaxTime}

\* an except clause that catches nothing
CaughtNothing(exc) == FALSE

\* except gp.GurobiError
Caught(exc) == exc = "GurobiError"

\* the result of solve() for an outcome of the try block
SolveResult(r) ==
    IF r.raised # "none" /\ Caught(r.raised) THEN Returned("LOADED", 0) ELSE r

Solve(o) ==
    /\ status[o] # "none"
    /\ Len(solved[o]) < MaxSolves
    /\ \E r \in TryOutcomes(status[o] = "generated") :
         solved' = [solved EXCEPT ![o] = Append(@, SolveResult(r))]
    /\ UNCHANGED <<pyRandom, npRandom, gen, parameters, seed, attrs, status,
                   instance, immediate, lastInit, returned>>
    /\ UNCHANGED <<balVars, tspVars, lotVars, aaVars, extVars>>

NewJobShop ==
    \E P \in AnyParameters("JopShop") : \E sd \in Seeds :
        /\ status[1] = "none"
        /\ Construct(1, "JopShop", P, sd)

GenerateJobShop == GenerateInstance(1)

SolveJobShop == Solve(1)

NextSolve == NewJobShop \/ GenerateJobShop \/ SolveJobShop

SpecSolve == InitInit /\ [][NextSolve]_vars

(***************************************************************************)
(* nltrans after the balancing: generate_instance draws a rate and a limit *)
(* per (origin, destination) and builds the model over the continuous      *)
(* variables shipping >= 0.  The rates enter the objective only.  The data *)
(* are integers, so the constraint system (a transportation polytope with  *)
(* integral bounds) has a solution exactly when it has an integral one.    *)
(***************************************************************************)
Pairs == (1..Len(supply)) \X (1..Len(demand))

\* limits = {(origin, destination): random.randint(*self.limit_range) ...}
DrawLimits ==
    /\ bGen = "nltrans"
    /\ bpc = "done"
    /\ \E lim \in [Pairs -> 1..MaxLimit] : limits' = lim
    /\ bpc' = "built"
    /\ UNCHANGED <<bGen, supply, demand, diff, idx, product, nProducts>>
    /\ UNCHANGED <<procVars, tspVars, lotVars, aaVars>>
    /\ UNCHANGED <<cutVars, scVars, msVars, prVars>>

\* quicksum(shipping[origin, destination] for destination in destinations)
Shipped(plan, i) == SumOver(1..Len(demand), [j \in 1..Len(demand) |-> plan[<<i, j>>]])
\* quicksum(shipping[origin, destination] for origin in origins)
Received(plan, j) == SumOver(1..Len(supply), [i \in 1..Len(supply) |-> plan[<<i, j>>]])

\* SupplyConstraint, DemandConstraint and LimitConstraint of the built model
BuiltNltrans(plan) ==
    /\ \A i \in 1..Len(supply) : Shipped(plan, i) = supply[i]
    /\ \A j \in 1..Len(demand) : Received(plan, j) = demand[j]
    /\ \A a \in Pairs : plan[a] <= limits[a]

NextNltrans == NextBalance \/ DrawLimits

SpecNltrans == InitBalance /\ [][NextNltrans]_vars

(***************************************************************************)
(* TSP print_solution.  The variables of the model are the route variables *)
(* in the order of self.distances.keys(), named route[city_i,city_j], and  *)
(* then the u variables, named u[city_i].  A string is modelled as the     *)
(* sequence of its characters.  City i of the model is cities[i - 1].      *)
(***************************************************************************)
Digit(d) == <<"0", "1", "2", "3", "4", "5", "6", "7", "8", "9">>[d + 1]

\* str(k) for a natural number k
RECURSIVE Digits(_)
Digits(k) == IF k < 10 THEN <<Digit(k)>> ELSE Digits(k \div 10) \o <<Digit(k % 10)>>

\* f"city_{i}" for i in range(n)
CityName(i) == <<"c", "i", "t", "y", "_">> \o Digits(i - 1)

RouteWord == <<"r", "o", "u", "t", "e">>

\* the names addVars gives: route[city_i,city_j] and u[city_i]
RouteVarName(i, j) ==
    RouteWord \o <<"[">> \o CityName(i) \o <<",">> \o CityName(j) \o <<"]">>
UVarName(i) == <<"u", "[">> \o CityName(i) \o <<"]">>

\* str.startswith
StartsWith(s, prefix) ==
    /\ Len(s) >= Len(prefix)
    /\ SubSeq(s, 1, Len(prefix)) = prefix

\* str.split(c): the pieces of s between the occurrences of c
RECURSIVE Split(_, _)
Split(s, c) ==
    IF \A k \in 1..Len(s) : s[k] # c THEN <<s>>
    ELSE LET k == CHOOSE k \in 1..Len(s) :
                      s[k] = c /\ \A m \in 1..(k - 1) : s[m] # c
         IN  <<SubSeq(s, 1, k - 1)>> \o Split(SubSeq(s, k + 1, Len(s)), c)

\* v.VarName.split('[')[1].split(']')[0].split(',')
ParseCities(name) == Split(Split(Split(name, "[")[2], "]")[1], ",")

\* the k-th key of self.distances: (i, j) for i in cities for j in cities if i != j
ArcAt(n, k) ==
    LET i == ((k - 1) \div (n - 1)) + 1
        r == ((k - 1) % (n - 1)) + 1
    IN  <<i, IF r < i THEN r ELSE r + 1>>

\* model.getVars(): name and value X of every variable, in order
GetVars(n, X) ==
    [k \in 1..(n * (n - 1)) |->
        [name |-> RouteVarName(ArcAt(n, k)[1], ArcAt(n, k)[2]),
         x |-> X01(X, ArcAt(n, k))]] \o
    [i \in 1..n |-> [name |-> UVarName(i), x |-> 0]]

\* a look-up that matches on the arc's end instead of its start
MatchesEnd(v, current) ==
    /\ StartsWith(v.name, RouteWord)
    /\ ParseCities(v.name)[2] = current
    /\ 2 * v.x > 1

\* v.VarName.startswith('route'), city1 == current_city and v.X > 0.5
Matches(v, current) ==
    /\ StartsWith(v.name, RouteWord)
    /\ ParseCities(v.name)[1] = current
    /\ 2 * v.x > 1

\* the inner for loop: city2 of the first matching variable, <<>> for None
NextCity(vs, current) ==
    IF \A k \in 1..Len(vs) : ~Matches(vs[k], current) THEN <<>>
    ELSE LET k == CHOOSE k \in 1..Len(vs) :
                      Matches(vs[k], current) /\ \A m \in 1..(k - 1) : ~Matches(vs[m], current)
         IN  ParseCities(vs[k].name)[2]

\* the outer loop, `left` iterations from now
RECURSIVE RouteLoop(_, _, _, _, _)
RouteLoop(vs, left, current, r, done) ==
    IF left = 0 THEN [route |-> r, lookups |-> done]
    ELSE LET next == NextCity(vs, current)
         IN  IF next = <<>> THEN [route |-> r, lookups |-> done + 1]
             ELSE RouteLoop(vs, left - 1, next, Append(r, current), done + 1)

\* lines 122-137: the loop, then route.append(route[0])
ExtractRoute(n, X) ==
    LET l == RouteLoop(GetVars(n, X), n, CityName(1), <<>>, 0)
    IN  IF Len(l.route) = 0
        THEN [route |-> <<>>, lookups |-> l.lookups, error |-> "IndexError"]
        ELSE [route |-> Append(l.route, l.route[1]), lookups |-> l.lookups,
              error |-> "none"]

\* print_solution(model) on the solved model; the solver's answer is a point
\* of the model, with status OPTIMAL or, stopped early, another status
TspPrint ==
    /\ tspPc = "assigned"
    /\ Completable(tspN, tspX)
    /\ \E st \in {"OPTIMAL", "TIME_LIMIT"} :
         IF st # "OPTIMAL"
         THEN /\ tspPc' = "no_solution"
              /\ UNCHANGED <<route, lookups>>
         ELSE LET e == ExtractRoute(tspN, tspX)
              IN  /\ route' = e.route
                  /\ lookups' = e.lookups
                  /\ tspPc' = IF e.error = "none" THEN "printed" ELSE e.error
    /\ UNCHANGED <<tspN, tspX>>
    /\ UNCHANGED <<procVars, balVars, lotVars, aaVars>>
    /\ UNCHANGED <<cutVars, scVars, msVars, nlVars>>

NextTspPrint == NextTsp \/ TspPrint

SpecTspPrint == InitTsp /\ [][NextTspPrint]_vars

(***************************************************************************)
(* Claims about construction and seeding.                                  *)
(***************************************************************************)
SuppliedKeys(o) == DOMAIN parameters[o].dict
Seeded(o) == seed[o] # <<>>
SameRun(o1, o2) ==
    /\ gen[o1] = gen[o2]
    /\ parameters[o1] = parameters[o2]
    /\ seed[o1] = seed[o2]

\* C1: for a non-empty `parameters` dict over a subset of the default keys,
\* after __init__ every default key is an attribute, holding the supplied
\* value when supplied and the default otherwise, and generate_instance does
\* not meet a missing attribute.
C1_MergesOverrides ==
    \A o \in Objects :
        (status[o] # "none" /\ parameters[o].given /\ SuppliedKeys(o) # {}) =>
            /\ status[o] # "AttributeError"
            /\ status[o] = "constructed" =>
                 \A k \in DefaultKeys(gen[o]) :
                     /\ k \in DOMAIN attrs[o]
                     /\ attrs[o][k] = IF k \in SuppliedKeys(o)
                                      THEN parameters[o].dict[k]
                                      ELSE DefaultParameters(gen[o])[k]

C3_IndependentOfOthers ==
    \A o1, o2 \in Objects :
        ( /\ status[o1] = "generated" /\ status[o2] = "generated"
          /\ SameRun(o1, o2) /\ Seeded(o1)
          /\ immediate[o1] ) =>
            instance[o2] = instance[o1]

\* C4: Generator(parameters={}) has the attributes of Generator(parameters=None),
\* the defaults, and generate_instance works after it.
C4_EmptyDictIsDefault ==
    \A o \in Objects :
        (status[o] # "none" /\ parameters[o].given /\ SuppliedKeys(o) = {}) =>
            /\ status[o] # "AttributeError"
            /\ status[o] = "constructed" => attrs[o] = DefaultParameters(gen[o])

(***************************************************************************)
(* Claims about the balancing step.                                        *)
(***************************************************************************)
Balanced == SumSeq(supply) = SumSeq(demand)

\* C5: in net1, netasgn and netthru, and per product in multi, for
\* non-negative supplies and demands the greedy reduction of the larger
\* side leaves total supply equal to total demand, and the assertion holds.
C5_ReductionBalances ==
    /\ bGen \in {"net1", "netasgn", "netthru"} =>
         /\ bpc # "AssertionError"
         /\ bpc \in {"assert", "done"} => Balanced
    /\ (bGen = "multi" /\ bpc = "balanced") => Balanced

\* a run in which the loop reduced two entries and the assertion passed
C5_Witness ==
    /\ bGen = "net1"
    /\ bpc = "done"
    /\ idx = 3
    /\ diff = 0
    /\ SumSeq(supply) > 0

\* C6: in transp and nltrans, after balancing (reduction of supply, or
\* raising the first origin's supply by the deficit) total supply equals
\* total demand, and the assertion holds.
C6_TransportBalances ==
    bGen \in {"transp", "nltrans"} =>
        /\ bpc # "AssertionError"
        /\ bpc \in {"assert", "done"} => Balanced

\* a run with several origins in which supply was raised and the assertion passed
C6_Witness ==
    /\ bGen = "transp"
    /\ bpc = "done"
    /\ diff > 0
    /\ Len(supply) > 1

(***************************************************************************)
(* Claims about the TSP model.                                             *)
(***************************************************************************)
\* the orders in which a tour from city 1 visits the n cities
TourOrders(n) ==
    {p \in [1..n -> Cities(n)] :
        p[1] = 1 /\ \A i, j \in 1..n : i # j => p[i] # p[j]}
\* the arcs of the closed tour that visits in order p
TourArcs(n, p) == {<<p[i], p[(i % n) + 1]>> : i \in 1..n}
\* the arc sets of the single tours through all n cities
Tours == [n \in MinCities..MaxCities |-> {TourArcs(n, p) : p \in TourOrders(n)}]

\* C7: a 0/1 assignment of the route variables extends to a solution of
\* the TSP model if and only if its arcs form one tour through all cities.
C7_FeasibleIffSingleTour ==
    tspPc = "assigned" => (Completable(tspN, tspX) <=> tspX \in Tours[tspN])

\* an assignment that satisfies visit and depart and is several subtours
C7_Witness ==
    /\ tspPc = "assigned"
    /\ Visit(tspN, tspX)
    /\ Depart(tspN, tspX)
    /\ tspX \notin Tours[tspN]

(***************************************************************************)
(* Claims about the lot-sizing and aircraft-assignment models.             *)
(***************************************************************************)
\* value of a stock before period 1
Before(v, t) == IF t = 1 THEN 0 ELSE v[t - 1]

\* the documented ULS formulation: I_{t-1} + x_t = I_t + D_t with I_0 = 0,
\* x_t <= y_t * sum(D), I_T = 0
DocULS(D, x, inv, y) ==
    /\ \A t \in 1..Len(D) : Before(inv, t) + x[t] = inv[t] + D[t]
    /\ \A t \in 1..Len(D) : x[t] <= y[t] * SumSeq(D)
    /\ inv[Len(D)] = 0

\* the documented ULSB formulation: I_{t-1} + x_t - B_{t-1} = I_t + D_t - B_t
\* with I_0 = B_0 = 0, x_t <= y_t * sum(D), I_T = B_T = 0
DocULSB(D, x, inv, y, b) ==
    /\ \A t \in 1..Len(D) :
          Before(inv, t) + x[t] - Before(b, t) = inv[t] + D[t] - b[t]
    /\ \A t \in 1..Len(D) : x[t] <= y[t] * SumSeq(D)
    /\ inv[Len(D)] = 0
    /\ b[Len(D)] = 0

\* C8: the points satisfying the constraints built by UncapacitatedLotSizing
\* are the points satisfying the documented formulation.
C8_ULSIsDocumented ==
    (lotPc = "assigned" /\ lotGen = "ULS") =>
        (BuiltULS(lotD, lotX, lotI, lotY) <=> DocULS(lotD, lotX, lotI, lotY))

\* C9: the points satisfying the constraints built by
\* UncapacitatedLotSizingBacklogging are the points satisfying the
\* documented formulation.
C9_ULSBIsDocumented ==
    (lotPc = "assigned" /\ lotGen = "ULSB") =>
        (BuiltULSB(lotD, lotX, lotI, lotY, lotB) <=> DocULSB(lotD, lotX, lotI, lotY, lotB))

\* C10: a point satisfying the constraints built by AircraftAssignment
\* meets every route's demand exactly and every aircraft type's availability.
C10_DemandMetExactly ==
    (aaPc = "assigned" /\ BuiltAircraft(aaAlloc)) =>
        /\ \A r \in DOMAIN aaDemand : Carried(aaAlloc, r) = aaDemand[r]
        /\ \A a \in DOMAIN aaAvail : Allocated(aaAlloc, a) <= aaAvail[a]

(***************************************************************************)
(* Claims about the sampled data of cut, SupplyChain and MarketShare.      *)
(***************************************************************************)
\* C11: every pattern generate_instance produces fits the raw roll: the sum
\* over the widths i of i * NumRollsWidth[i, j] is at most RollWidth.
C11_PatternsFitRoll ==
    (cutPc \in {"entries", "built"} /\ Len(cutPattern) = cutWidths) =>
        PatternWidth(cutPattern, cutWidths) <= cutRoll

\* C12: every arc capacity cap[i, j] of SupplyChain lies within the
\* configured cap_range (min, max).
C12_CapWithinCapRange ==
    scPc \in {"cap", "built"} =>
        /\ ScDefaults.cap_range[1] <= scCap
        /\ scCap <= ScDefaults.cap_range[2]

\* C13: every unit revenue revenues[i, j, k] of MarketShare lies within the
\* configured revenue_range (min, max).
C13_RevenueWithinRevenueRange ==
    msPc \in {"entry", "built"} =>
        /\ MsDefaults.revenue_range[1] <= msRevenue
        /\ msRevenue <= MsDefaults.revenue_range[2]

(***************************************************************************)
(* Claims about solve, the returned values and print_solution.             *)
(***************************************************************************)
\* the outcome of the solve() call a step makes on object o
SolveCalled(o) == Len(solved'[o]) = Len(solved[o]) + 1
LastOutcome(o) == solved'[o][Len(solved'[o])]
IsPair(r) ==
    /\ r.raised = "none"
    /\ r.status \in SolveStatuses \cup {"LOADED"}
    /\ r.time \in 0..MaxTime

\* C14 as stated: solve() returns a pair (status, solve_time) and lets no
\* exception escape, for any order of calls on the generator, solve()
\* before generate_instance() included.
C14_SolveNeverRaises ==
    [][\A o \in Objects : SolveCalled(o) => IsPair(LastOutcome(o))]_vars

\* C14 amended: solve() called after generate_instance() has returned
\* returns a pair (status, solve_time), (LOADED, 0.0) when the solver raised
\* GurobiError, and lets no exception escape.
C14_SolveAfterGenerate ==
    [][\A o \in Objects :
         (SolveCalled(o) /\ status[o] = "generated") => IsPair(LastOutcome(o))]_vars

\* solve() has returned (LOADED, 0.0) after a GurobiError, and a solver status
C14_Witness ==
    /\ status[1] = "generated"
    /\ Len(solved[1]) = 2
    /\ solved[1][1] = Returned("LOADED", 0)
    /\ solved[1][2].status = "OPTIMAL"

\* C15: MCND.generate_instance returns both the configured model and the
\* dict of the instance data (N, A, K, u, f, c, d, OD).
C15_McndReturnsModelAndData ==
    \A o \in Objects :
        (gen[o] = "MCND" /\ status[o] = "generated") =>
            returned[o] = <<"model", "instance_data">>

\* C16: every instance nltrans produces is feasible: some non-negative
\* shipping plan meets every origin's supply equality, every destination's
\* demand equality and every per-pair limit.
C16_NltransFeasible ==
    (bGen = "nltrans" /\ bpc = "built") =>
        \E plan \in [Pairs -> 0..MaxLimit] : BuiltNltrans(plan)

\* the route of the tour with arcs X: the cities in tour order from city_0,
\* and city_0 again
TourRoute(n, X) ==
    LET p == CHOOSE p \in TourOrders(n) : TourArcs(n, p) = X
    IN  [i \in 1..(n + 1) |-> CityName(p[((i - 1) % n) + 1])]

\* C17: for an optimal solution whose arcs form a single tour over the n
\* cities, print_solution's route starts at city_0, lists each city once in
\* tour order and ends with city_0 (n + 1 entries), after at most n look-ups.
C17_RouteIsTheTour ==
    (tspPc \in {"printed", "IndexError"} /\ tspX \in Tours[tspN]) =>
        /\ tspPc = "printed"
        /\ route = TourRoute(tspN, tspX)
        /\ Len(route) = tspN + 1
        /\ lookups <= tspN

\* the route of a tour over the largest instance has been extracted
C17_Witness ==
    /\ tspPc = "printed"
    /\ tspN = MaxCities
    /\ tspX \in Tours[tspN]
    /\ Len(route) = tspN + 1

====
